---- MODULE Spec2Model ----
(***************************************************************************)
(* Incident rule engine of src/incident.py: the Streamlit session state    *)
(* (rule list, cached check outcomes, cached downstream workflows) and the *)
(* handlers that read and change it (fetch, add rule, delete rule, trigger *)
(* selected rule, trigger all rules).  One action is one script run in     *)
(* which one button was pressed.                                           *)
(***************************************************************************)
EXTENDS Integers, Sequences, FiniteSets, TLC

VARIABLES
    rules,                 \* st.session_state.rules
    checks_df,             \* st.session_state.checks_df (rows, in order)
    downstream_workflows,  \* st.session_state.downstream_workflows (rows)
    page,                  \* st.warning / st.error calls of main() in the last script run
    calls,                 \* the trigger_rule calls of the last script run
    raised,                \* the last script run ended in an uncaught exception
    pressed,               \* the button that started the last script run
    table_lineage,         \* the lineage graph the Metis API holds for the table
    checks,                \* the rows of "icebase"."coke_dummy".checks, in arrival order
    all_checks             \* the rows get_checks_df returned to the last fetch

\* The session specifications (Spec, SpecStore, SpecTrigger) draw what a fetch
\* is answered from LineageResponses and QueryResponses and leave the last
\* three variables at their initial values; SpecLineage and SpecChecks draw the
\* graph and the table themselves and run the fetch on them.
source == <<table_lineage, checks, all_checks>>

vars == <<rules, checks_df, downstream_workflows, page, calls, raised, pressed,
          table_lineage, checks, all_checks>>

(***************************************************************************)
(* Bounds and value domains                                                *)
(***************************************************************************)
MaxRules == 2

CheckNames == {"c1", "c2"}
Outcomes == {"pass", "fail"}
TableNames == {"t1", "t2"}
WebhookInputs == {"", "hook"}
\* the "Desired Check Outcome for Trigger" the sessions pick (the engine treats
\* "pass" and "fail" alike; the observed outcomes range over both)
DesiredChoices == {"fail"}

ALERT_ONLY == "Alert Only"
PIPELINE_BREAK == "Alert + Pipeline Break"
ActionTypes == {ALERT_ONLY, PIPELINE_BREAK}
NONE_OPTION == "(None)"

DOT == "."

(***************************************************************************)
(* Python helpers: dict access, str.split                                  *)
(***************************************************************************)
\* k in d
Has(d, k) == k \in DOMAIN d

\* d.get(k, default)
Get(d, k, default) == IF Has(d, k) THEN d[k] ELSE default

\* A qualified name is a sequence of tokens: segment texts and DOT separators,
\* never two segment texts in a row.  Segment(s) is the text before the first
\* DOT of s ("" when s starts with a DOT or is empty).
Segment(s) == IF s = <<>> \/ Head(s) = DOT THEN "" ELSE Head(s)

\* what follows the first segment of s and its separator; <<"end">> marks that
\* no separator follows
AfterSegment(s) ==
    IF s = <<>> THEN <<"end">>
    ELSE IF Head(s) = DOT THEN <<"more", Tail(s)>>
    ELSE IF Len(s) = 1 THEN <<"end">>
    ELSE <<"more", Tail(Tail(s))>>

\* wf_fqn.split(".")
RECURSIVE Split(_)
Split(s) ==
    LET rest == AfterSegment(s)
    IN  IF rest[1] = "end" THEN <<Segment(s)>>
        ELSE <<Segment(s)>> \o Split(rest[2])

(***************************************************************************)
(* parse_downstream_lineage                                                *)
(***************************************************************************)
KEY_ERROR == [ok |-> FALSE, results |-> <<>>]

\* node_lookup = {node["id"]: node for node in nodes}; node_lookup.get(id):
\* <<n>> for the last node n carrying that id, <<>> for None
RECURSIVE NodeLookupGet(_, _)
NodeLookupGet(nodes, id) ==
    IF nodes = <<>> THEN <<>>
    ELSE LET last == nodes[Len(nodes)]
         IN  IF last["id"] = id THEN <<last>>
             ELSE NodeLookupGet(SubSeq(nodes, 1, Len(nodes) - 1), id)

\* building node_lookup raises KeyError when a node has no "id"
NodeLookupRaises(nodes) == \E i \in 1..Len(nodes) : ~Has(nodes[i], "id")

\* one pass of the loop body raises KeyError: the edge lacks an endpoint key,
\* or a resolved node lacks "type"
EdgeRaises(edge, nodes) ==
    \/ ~Has(edge, "fromEntity")
    \/ ~Has(edge, "toEntity")
    \/ LET from_node == NodeLookupGet(nodes, edge["fromEntity"])
           to_node == NodeLookupGet(nodes, edge["toEntity"])
       IN  \/ from_node # <<>> /\ ~Has(from_node[1], "type")
           \/ to_node # <<>> /\ ~Has(to_node[1], "type")

\* (a slip: the segment at index 1 taken for the workflow name)
EdgeRowsSecondSegment(edge, nodes) ==
    LET from_node == NodeLookupGet(nodes, edge["fromEntity"])
        to_node == NodeLookupGet(nodes, edge["toEntity"])
        parts == IF from_node # <<>> /\ from_node[1]["type"] = "dataosJob"
                 THEN Split(Get(from_node[1], "fullyQualifiedName", <<>>))
                 ELSE <<>>
        workflow_name == IF Len(parts) > 2 THEN parts[2] ELSE ""
        downstream_tbl == IF to_node # <<>> /\ to_node[1]["type"] = "table"
                          THEN Get(to_node[1], "fullyQualifiedName", <<>>)
                          ELSE <<>>
    IN  IF workflow_name # "" /\ downstream_tbl # <<>>
        THEN <<[downstream_workflow_name |-> workflow_name,
                downstream_datasets |-> downstream_tbl]>>
        ELSE <<>>

\* the rows one edge appends to results (none or one)
EdgeRows(edge, nodes) ==
    LET from_node == NodeLookupGet(nodes, edge["fromEntity"])
        to_node == NodeLookupGet(nodes, edge["toEntity"])
        parts == IF from_node # <<>> /\ from_node[1]["type"] = "dataosJob"
                 THEN Split(Get(from_node[1], "fullyQualifiedName", <<>>))
                 ELSE <<>>
        workflow_name == IF Len(parts) > 2 THEN parts[3] ELSE ""
        downstream_tbl == IF to_node # <<>> /\ to_node[1]["type"] = "table"
                          THEN Get(to_node[1], "fullyQualifiedName", <<>>)
                          ELSE <<>>
    IN  IF workflow_name # "" /\ downstream_tbl # <<>>
        THEN <<[downstream_workflow_name |-> workflow_name,
                downstream_datasets |-> downstream_tbl]>>
        ELSE <<>>

\* (a slip: a row equal to a later one left out)
RECURSIVE EdgesRowsMerged(_, _)
EdgesRowsMerged(edges, nodes) ==
    IF edges = <<>> THEN <<>>
    ELSE LET head == EdgeRows(Head(edges), nodes)
             rest == EdgesRowsMerged(Tail(edges), nodes)
         IN  IF head # <<>> /\ \E k \in 1..Len(rest) : rest[k] = head[1]
             THEN rest
             ELSE head \o rest

RECURSIVE EdgesRows(_, _)
EdgesRows(edges, nodes) ==
    IF edges = <<>> THEN <<>>
    ELSE EdgeRows(Head(edges), nodes) \o EdgesRows(Tail(edges), nodes)

parse_downstream_lineage(lineage_json) ==
    LET nodes == Get(lineage_json, "nodes", <<>>)
        edges == Get(lineage_json, "downstreamEdges", <<>>)
    IN  IF NodeLookupRaises(nodes) THEN KEY_ERROR
        ELSE IF \E i \in 1..Len(edges) : EdgeRaises(edges[i], nodes) THEN KEY_ERROR
        ELSE [ok |-> TRUE, results |-> EdgesRows(edges, nodes)]

(***************************************************************************)
(* What the outside world answers: HTTP responses and query results        *)
(***************************************************************************)
\* a response of requests.get/post/delete: exc = the call raised a transport
\* error, otherwise status_code is the response's status
Response(exc, status_code) == [exc |-> exc, status_code |-> status_code]
TRANSPORT_ERROR == Response(TRUE, 0)

\* response.raise_for_status() raises
RaiseForStatus(resp) == resp.status_code >= 400

PostResponses == {Response(FALSE, 200), Response(FALSE, 500), TRANSPORT_ERROR}
DeleteResponses ==
    {Response(FALSE, 200), Response(FALSE, 204), Response(FALSE, 404),
     Response(FALSE, 500), TRANSPORT_ERROR}

(***************************************************************************)
(* Messages, outbound requests, trigger_rule calls                         *)
(***************************************************************************)
\* one st.write / st.warning / st.error / st.success / st.info call
\* (number: the rule index or the status code the text prints, else 0)
Msg(kind, args, number) == [kind |-> kind, args |-> args, number |-> number]

\* one outbound HTTP request and the response it met
Request(method, target, body, resp) ==
    [method |-> method, target |-> target, body |-> body, resp |-> resp]

\* the button pressed, with the index or option it carries (else 0)
Button(name, arg) == [name |-> name, arg |-> arg]

\* what one trigger_rule call did: the messages it wrote, the requests it
\* issued, and whether it ended in an uncaught exception
Call(rule_index, rule, msgs, reqs, exc) ==
    [rule_index |-> rule_index, rule |-> rule, msgs |-> msgs, reqs |-> reqs,
     raised |-> exc]

(***************************************************************************)
(* delete_workflow, post_to_teams, send_alert                              *)
(***************************************************************************)
delete_workflow(workflow_name, resp) ==
    IF resp.exc
    THEN [raised |-> TRUE, success |-> FALSE, msg |-> Msg("", <<>>, 0)]
    ELSE IF resp.status_code \in {200, 204}
    THEN [raised |-> FALSE, success |-> TRUE,
          msg |-> Msg("Successfully deleted workflow", <<workflow_name>>, 0)]
    ELSE [raised |-> FALSE, success |-> FALSE,
          msg |-> Msg("Failed to delete workflow", <<workflow_name>>, resp.status_code)]

\* post_to_teams raises
PostRaises(resp) == resp.exc \/ RaiseForStatus(resp)

\* (a slip: the empty-URL guard forgotten, the POST goes out regardless)
SendAlertUnguarded(teams_webhook_url, message, resp) ==
    [msgs |-> IF PostRaises(resp)
              THEN <<Msg("Error posting to Teams", <<teams_webhook_url>>, 0)>>
              ELSE <<Msg("Alert posted to Teams", <<teams_webhook_url>>, 0)>>,
     reqs |-> <<Request("POST", teams_webhook_url, message, resp)>>]

send_alert(teams_webhook_url, message, resp) ==
    IF teams_webhook_url = ""
    THEN [msgs |-> <<Msg("No Teams webhook URL provided. Skipping alert.", <<>>, 0)>>,
          reqs |-> <<>>]
    ELSE [msgs |-> IF PostRaises(resp)
                   THEN <<Msg("Error posting to Teams", <<teams_webhook_url>>, 0)>>
                   ELSE <<Msg("Alert posted to Teams", <<teams_webhook_url>>, 0)>>,
          reqs |-> <<Request("POST", teams_webhook_url, message, resp)>>]

(***************************************************************************)
(* trigger_rule, trigger_all_rules                                         *)
(***************************************************************************)
\* (a slip: a rule fires only when the run before evaluated nothing)
OutcomeMatchesOnce(current_outcome, desired_outcome) ==
    current_outcome = desired_outcome /\ calls = <<>>

\* (a slip: the rows of every check, the filter forgotten)
RowsOfUnfiltered(check_name) == checks_df

\* (a slip: the comparison inverted)
OutcomeDiffers(current_outcome, desired_outcome) == current_outcome # desired_outcome

\* (a slip: the action type never looked at)
DeletesWorkflowAlways(action_type, workflow_name) == TRUE

\* checks_df[checks_df["check_name"] == check_name]
RowsOf(check_name) == SelectSeq(checks_df, LAMBDA r : r.check_name = check_name)

\* current_outcome == desired_outcome
OutcomeMatches(current_outcome, desired_outcome) == current_outcome = desired_outcome

\* action_type == "Alert + Pipeline Break" and workflow_name
DeletesWorkflow(action_type, workflow_name) ==
    action_type = PIPELINE_BREAK /\ workflow_name # ""

trigger_rule(rule, rule_index, env) ==
    LET row == RowsOf(rule.check_name)
    IN  IF row = <<>>
        THEN Call(rule_index, rule,
                  <<Msg("not found in checks_df", <<rule.check_name>>, rule_index)>>,
                  <<>>, FALSE)
        ELSE
        LET current_outcome == row[1].outcome
        IN  IF OutcomeMatches(current_outcome, rule.desired_outcome)
            THEN
            LET alert == send_alert(rule.teams_webhook,
                                    <<rule.check_name, current_outcome>>, env.post)
                fired == <<Msg("TRIGGERED", <<rule.check_name, current_outcome>>,
                               rule_index)>>
            IN  IF DeletesWorkflow(rule.action_type, rule.workflow_name)
                THEN
                LET del == delete_workflow(rule.workflow_name, env.delete)
                    req == <<Request("DELETE", rule.workflow_name, <<>>, env.delete)>>
                IN  IF del.raised
                    THEN Call(rule_index, rule, fired \o alert.msgs,
                              alert.reqs \o req, TRUE)
                    ELSE Call(rule_index, rule, fired \o alert.msgs \o <<del.msg>>,
                              alert.reqs \o req, FALSE)
                ELSE Call(rule_index, rule, fired \o alert.msgs, alert.reqs, FALSE)
            ELSE Call(rule_index, rule,
                      <<Msg("NOT triggered", <<current_outcome, rule.desired_outcome>>,
                            rule_index)>>,
                      <<>>, FALSE)

\* the loop of trigger_all_rules from rule i on; envs[1] is what rule i meets,
\* envs[2] what rule i + 1 meets, and so on.
\* An exception leaving trigger_rule leaves the loop.
RECURSIVE TriggerFrom(_, _)
TriggerFrom(i, envs) ==
    IF i > Len(rules) THEN <<>>
    ELSE LET c == trigger_rule(rules[i], i, Head(envs))
         IN  IF c.raised THEN <<c>> ELSE <<c>> \o TriggerFrom(i + 1, Tail(envs))

trigger_all_rules(envs) == TriggerFrom(1, envs)

(***************************************************************************)
(* Inputs of a fetch                                                       *)
(***************************************************************************)
\* lineage graphs the Metis API may answer with
G_EMPTY == [nodes |-> <<>>, downstreamEdges |-> <<>>]
G_ONE ==
    [nodes |-> <<[id |-> "n1", type |-> "dataosJob",
                  fullyQualifiedName |-> <<"a", DOT, "b", DOT, "wf1">>],
                 [id |-> "n2", type |-> "table",
                  fullyQualifiedName |-> <<"icebase", DOT, "icebase", DOT, "s", DOT, "t1">>],
                 [id |-> "n3", type |-> "dataosJob",
                  fullyQualifiedName |-> <<"a", DOT, "b">>]>>,
     downstreamEdges |-> <<[fromEntity |-> "n1", toEntity |-> "n2"],
                           [fromEntity |-> "n3", toEntity |-> "n2"],
                           [fromEntity |-> "n1", toEntity |-> "n9"]>>]
G_BAD ==
    [nodes |-> <<[id |-> "n1", type |-> "dataosJob",
                  fullyQualifiedName |-> <<"a", DOT, "b", DOT, "wf1">>]>>,
     downstreamEdges |-> <<[fromEntity |-> "n1"]>>]
LineageSamples == {G_EMPTY, G_ONE, G_BAD}

\* what requests.get answers in get_table_lineage: a transport error, an error
\* status, or a graph
LineageJson(g) == [exc |-> FALSE, status_code |-> 200, json |-> g]
LineageResponses ==
    {[exc |-> TRUE, status_code |-> 0, json |-> G_EMPTY],
     [exc |-> FALSE, status_code |-> 500, json |-> G_EMPTY]}
    \cup {LineageJson(g) : g \in LineageSamples}

\* the table picked in the "Select a Table" box
SelectedTables == {"t1"}

\* a row of the checks query (the definition column is carried along and
\* never read by the engine; it is left out)
CheckRow(check_name, outcome, table_name) ==
    [check_name |-> check_name, outcome |-> outcome, table_name |-> table_name]

\* results of the rn = 1 query: at most one row per check name
RowChoices(c, tables) ==
    {<<>>} \cup {<<CheckRow(c, o, t)>> : o \in Outcomes, t \in tables}
QueryResults ==
    {a \o b : a \in RowChoices("c1", TableNames), b \in RowChoices("c2", SelectedTables)}

\* cur.execute / cur.fetchall: raises, or returns the rows
QueryResponses ==
    {[exc |-> TRUE, rows |-> <<>>]} \cup {[exc |-> FALSE, rows |-> q] : q \in QueryResults}

(***************************************************************************)
(* The session                                                             *)
(***************************************************************************)
Init ==
    /\ rules = <<>>
    /\ checks_df = <<>>
    /\ downstream_workflows = <<>>
    /\ page = <<>>
    /\ calls = <<>>
    /\ raised = FALSE
    /\ pressed = Button("", 0)
    /\ table_lineage = G_EMPTY
    /\ checks = <<>>
    /\ all_checks = <<>>

FETCH_ERROR == <<Msg("Error fetching data", <<>>, 0)>>

\* get_table_lineage or parse_downstream_lineage raises
LineageFails(lineage_resp) ==
    \/ lineage_resp.exc
    \/ RaiseForStatus(lineage_resp)
    \/ ~parse_downstream_lineage(lineage_resp.json).ok

\* (a slip: a fetch that stored new checks starts the rule list afresh)
FetchRunResetting(selected_table, lineage_resp, checks_resp) ==
    LET parsed == parse_downstream_lineage(lineage_resp.json)
        filtered_checks ==
            SelectSeq(checks_resp.rows, LAMBDA r : r.table_name = selected_table)
    IN  /\ IF LineageFails(lineage_resp)
           THEN /\ UNCHANGED <<downstream_workflows, checks_df, rules>>
                /\ page' = FETCH_ERROR
           ELSE /\ downstream_workflows' = parsed.results
                /\ IF checks_resp.exc
                   THEN /\ UNCHANGED <<checks_df, rules>>
                        /\ page' = FETCH_ERROR
                   ELSE /\ checks_df' = filtered_checks
                        /\ rules' = <<>>
                        /\ page' = <<>>
        /\ calls' = <<>>
        /\ raised' = FALSE
        /\ pressed' = Button("Fetch", 0)

\* "Fetch Checks and Downstream Workflows defined on this Dataset": what the
\* handler does to the session
FetchRun(selected_table, lineage_resp, checks_resp) ==
    LET parsed == parse_downstream_lineage(lineage_resp.json)
        filtered_checks ==
            SelectSeq(checks_resp.rows, LAMBDA r : r.table_name = selected_table)
    IN  /\ IF LineageFails(lineage_resp)
           THEN /\ UNCHANGED <<downstream_workflows, checks_df>>
                /\ page' = FETCH_ERROR
           ELSE /\ downstream_workflows' = parsed.results
                /\ IF checks_resp.exc
                   THEN /\ UNCHANGED checks_df
                        /\ page' = FETCH_ERROR
                   ELSE /\ checks_df' = filtered_checks
                        /\ page' = <<>>
        /\ calls' = <<>>
        /\ raised' = FALSE
        /\ pressed' = Button("Fetch", 0)
        /\ UNCHANGED rules

\* a fetch answered from LineageResponses and QueryResponses
Fetch(selected_table, lineage_resp, checks_resp) ==
    /\ FetchRun(selected_table, lineage_resp, checks_resp)
    /\ UNCHANGED source

\* the rest of main() is rendered only when there are checks
FormsShown == checks_df # <<>>

\* st.session_state.checks_df["check_name"].unique().tolist()
check_options == {checks_df[i].check_name : i \in 1..Len(checks_df)}

\* ["(None)"] + wf_names, shown for "Alert + Pipeline Break" only
workflow_options(action_type) ==
    IF action_type = PIPELINE_BREAK
    THEN {NONE_OPTION} \cup
         {downstream_workflows[i].downstream_workflow_name :
            i \in 1..Len(downstream_workflows)}
    ELSE {""}

\* (a slip: the validation left out)
AddNeverRejected(action_type, workflow_name) == FALSE

\* action_type == "Alert + Pipeline Break" and not workflow_name
AddRejected(action_type, workflow_name) ==
    action_type = PIPELINE_BREAK /\ workflow_name = ""

\* "Add Rule"
AddRule(action_type, selected_check, desired_outcome, workflow_choice, teams_webhook_url) ==
    LET workflow_name == IF workflow_choice = NONE_OPTION THEN "" ELSE workflow_choice
        new_rule == [action_type |-> action_type,
                     check_name |-> selected_check,
                     desired_outcome |-> desired_outcome,
                     workflow_name |-> workflow_name,
                     teams_webhook |-> teams_webhook_url]
    IN  /\ FormsShown
        /\ IF AddRejected(action_type, workflow_name)
           THEN /\ page' = <<Msg("Please select a workflow to delete.", <<>>, 0)>>
                /\ UNCHANGED rules
           ELSE /\ Len(rules) < MaxRules
                /\ rules' = Append(rules, new_rule)
                /\ page' = <<>>
        /\ calls' = <<>>
        /\ raised' = FALSE
        /\ pressed' = Button("Add Rule", 0)
        /\ UNCHANGED <<checks_df, downstream_workflows, source>>

\* (a slip: list.pop() without the index removes the last element)
ListPopLast(list, i) == SubSeq(list, 1, Len(list) - 1)

\* list.pop(i), i counted from 0
ListPop(list, i) == SubSeq(list, 1, i) \o SubSeq(list, i + 2, Len(list))

\* "Delete Rule #{i+1}"
DeleteRule(i) ==
    /\ FormsShown
    /\ rules' = ListPop(rules, i)
    /\ page' = <<>>
    /\ calls' = <<>>
    /\ raised' = FALSE
    /\ pressed' = Button("Delete Rule", i)
    /\ UNCHANGED <<checks_df, downstream_workflows, source>>

\* "Trigger Selected Rule"; option 0 of the selectbox is "(None)", option k
\* names rule k
TriggerSelected(option, env) ==
    /\ FormsShown
    /\ IF option = 0
       THEN /\ page' = <<Msg("Please select a rule or use 'Trigger All Rules'.", <<>>, 0)>>
            /\ calls' = <<>>
            /\ raised' = FALSE
       ELSE LET idx == option - 1
                c == trigger_rule(rules[idx + 1], idx + 1, env)
            IN  /\ page' = <<>>
                /\ calls' = <<c>>
                /\ raised' = c.raised
    /\ pressed' = Button("Trigger Selected Rule", option)
    /\ UNCHANGED <<rules, checks_df, downstream_workflows, source>>

\* (a slip: the rules are dropped once they were evaluated)
TriggerAllConsuming(envs) ==
    LET cs == trigger_all_rules(envs)
    IN  /\ FormsShown
        /\ page' = <<>>
        /\ calls' = cs
        /\ raised' = (cs # <<>> /\ cs[Len(cs)].raised)
        /\ pressed' = Button("Trigger All Rules", 0)
        /\ rules' = <<>>
        /\ UNCHANGED <<checks_df, downstream_workflows, source>>

\* "Trigger All Rules"
TriggerAll(envs) ==
    LET cs == trigger_all_rules(envs)
    IN  /\ FormsShown
        /\ page' = <<>>
        /\ calls' = cs
        /\ raised' = (cs # <<>> /\ cs[Len(cs)].raised)
        /\ pressed' = Button("Trigger All Rules", 0)
        /\ UNCHANGED <<rules, checks_df, downstream_workflows, source>>

\* The answers a script run never asks for do not matter: a fetch whose lineage
\* call failed issues no query, a rule that posts or deletes nothing meets no
\* response.  Those answers are fixed to one value.
QueriesAfter(lineage_resp) ==
    IF LineageFails(lineage_resp) THEN {[exc |-> TRUE, rows |-> <<>>]}
    ELSE QueryResponses

NO_ENV == [post |-> TRANSPORT_ERROR, delete |-> TRANSPORT_ERROR]

\* what one trigger_rule call can meet: the answer to its POST, to its DELETE
EnvsFor(rule) ==
    LET c == trigger_rule(rule, 0, NO_ENV)
        posts == \E i \in 1..Len(c.reqs) : c.reqs[i].method = "POST"
        deletes == \E i \in 1..Len(c.reqs) : c.reqs[i].method = "DELETE"
    IN  [post : IF posts THEN PostResponses ELSE {TRANSPORT_ERROR},
         delete : IF deletes THEN DeleteResponses ELSE {TRANSPORT_ERROR}]

RECURSIVE EnvsFrom(_)
EnvsFrom(i) ==
    IF i > Len(rules) THEN {<<>>}
    ELSE {<<e>> \o rest : e \in EnvsFor(rules[i]), rest \in EnvsFrom(i + 1)}

AllEnvs == EnvsFrom(1)

Next ==
    \/ \E selected_table \in SelectedTables, lineage_resp \in LineageResponses :
          \E checks_resp \in QueriesAfter(lineage_resp) :
             Fetch(selected_table, lineage_resp, checks_resp)
    \/ \E action_type \in ActionTypes, selected_check \in check_options,
          desired_outcome \in DesiredChoices, teams_webhook_url \in WebhookInputs :
          \E workflow_choice \in workflow_options(action_type) :
             AddRule(action_type, selected_check, desired_outcome, workflow_choice,
                     teams_webhook_url)
    \/ \E i \in 0..(Len(rules) - 1) : DeleteRule(i)
    \/ \E option \in 0..Len(rules) :
          \E env \in (IF option = 0 THEN {NO_ENV} ELSE EnvsFor(rules[option])) :
             TriggerSelected(option, env)
    \/ \E envs \in AllEnvs : TriggerAll(envs)

Spec == Init /\ [][Next]_vars

(***************************************************************************)
(* The rule store alone: the handlers that read or write the rule list and *)
(* the fetch that changes what the add form offers.  The trigger handlers  *)
(* leave rules, checks_df and downstream_workflows unchanged.              *)
(***************************************************************************)
NextStore ==
    \/ \E selected_table \in SelectedTables, lineage_resp \in LineageResponses :
          \E checks_resp \in QueriesAfter(lineage_resp) :
             Fetch(selected_table, lineage_resp, checks_resp)
    \/ \E action_type \in ActionTypes, selected_check \in check_options,
          desired_outcome \in DesiredChoices, teams_webhook_url \in WebhookInputs :
          \E workflow_choice \in workflow_options(action_type) :
             AddRule(action_type, selected_check, desired_outcome, workflow_choice,
                     teams_webhook_url)
    \/ \E i \in 0..(Len(rules) - 1) : DeleteRule(i)

SpecStore == Init /\ [][NextStore]_vars

(***************************************************************************)
(* One evaluation: trigger_rule and trigger_all_rules applied once to each *)
(* rule list and snapshot a session can hold after a fetch that stored     *)
(* checks.                                                                 *)
(***************************************************************************)
\* the workflow names and datasets a fetch can store
FetchedWorkflows ==
    {parse_downstream_lineage(g).results :
        g \in {h \in LineageSamples : parse_downstream_lineage(h).ok}}
WorkflowNames ==
    UNION {{dw[i].downstream_workflow_name : i \in 1..Len(dw)} : dw \in FetchedWorkflows}

\* the check rows a fetch can store
FetchedChecks ==
    {SelectSeq(q, LAMBDA r : r.table_name = t) : q \in QueryResults, t \in SelectedTables}

\* the rules the add form can append
AddableRules ==
    {r \in [action_type : ActionTypes, check_name : CheckNames,
            desired_outcome : DesiredChoices, workflow_name : WorkflowNames \cup {""},
            teams_webhook : WebhookInputs] :
        /\ ~AddRejected(r.action_type, r.workflow_name)
        /\ r.action_type = ALERT_ONLY => r.workflow_name = ""}

InitFetched ==
    /\ rules \in UNION {[1..n -> AddableRules] : n \in 0..MaxRules}
    /\ checks_df \in FetchedChecks \ {<<>>}
    /\ downstream_workflows \in FetchedWorkflows
    /\ page = <<>>
    /\ calls = <<>>
    /\ raised = FALSE
    /\ pressed = Button("Fetch", 0)
    /\ table_lineage = G_EMPTY
    /\ checks = <<>>
    /\ all_checks = <<>>

NextTrigger ==
    \/ /\ pressed.name = "Fetch"
       /\ \E option \in 0..Len(rules) :
             \E env \in (IF option = 0 THEN {NO_ENV} ELSE EnvsFor(rules[option])) :
                TriggerSelected(option, env)
    \/ /\ pressed.name = "Fetch"
       /\ \E envs \in AllEnvs : TriggerAll(envs)

SpecTrigger == InitFetched /\ [][NextTrigger]_vars

\* every state a session is in after a fetch that stored checks is a state
\* SpecTrigger starts from (an invariant of Spec)
FetchedStatesCovered ==
    (pressed.name = "Fetch" /\ page = <<>> /\ FormsShown) =>
        /\ rules \in UNION {[1..n -> AddableRules] : n \in 0..MaxRules}
        /\ checks_df \in FetchedChecks
        /\ downstream_workflows \in FetchedWorkflows

\* "Trigger Selected Rule" pressed again and again on what a fetch left
NextReevaluate ==
    \E option \in 0..Len(rules) :
        \E env \in (IF option = 0 THEN {NO_ENV} ELSE EnvsFor(rules[option])) :
            TriggerSelected(option, env)

SpecReevaluate == InitFetched /\ [][NextReevaluate]_vars

(***************************************************************************)
(* A fetch on a given lineage graph and a given checks table               *)
(***************************************************************************)
MaxEdges == 2
MaxRows == 3

\* nodes of the lineage graphs, one per id
N_JOB == [id |-> "n1", type |-> "dataosJob",
          fullyQualifiedName |-> <<"a", DOT, "b", DOT, "wf1">>]
N_JOB4 == [id |-> "n2", type |-> "dataosJob",
           fullyQualifiedName |-> <<"x", DOT, "y", DOT, "wf1", DOT, "z">>]
N_JOB2 == [id |-> "n3", type |-> "dataosJob",
           fullyQualifiedName |-> <<"a", DOT, "b">>]
N_JOB_BLANK == [id |-> "n4", type |-> "dataosJob",
                fullyQualifiedName |-> <<"a", DOT, "b", DOT>>]
N_TABLE == [id |-> "n5", type |-> "table",
            fullyQualifiedName |-> <<"icebase", DOT, "icebase", DOT, "s", DOT, "t1">>]
N_TABLE_UNNAMED == [id |-> "n6", type |-> "table"]
N_DASHBOARD == [id |-> "n7", type |-> "dashboard",
                fullyQualifiedName |-> <<"a", DOT, "b", DOT, "c">>]
N_UNTYPED == [id |-> "n7", fullyQualifiedName |-> <<"a", DOT, "b", DOT, "c">>]
N_ANONYMOUS == [type |-> "table", fullyQualifiedName |-> <<"s", DOT, "t2">>]

Nodes == <<N_JOB, N_JOB4, N_JOB2, N_JOB_BLANK, N_TABLE, N_TABLE_UNNAMED>>
NodeLists ==
    {<<>>,
     Nodes \o <<N_DASHBOARD>>,
     Nodes \o <<N_UNTYPED>>,
     Nodes \o <<N_DASHBOARD, N_ANONYMOUS>>}

\* "n9" is the id of no node
FromIds == {"n1", "n2", "n3", "n4", "n7", "n9"}
ToIds == {"n5", "n6", "n1", "n9"}
EdgeChoices ==
    {[fromEntity |-> f, toEntity |-> t] : f \in FromIds, t \in ToIds}
    \cup {[fromEntity |-> "n1"], [toEntity |-> "n5"]}
EdgeLists == UNION {[1..n -> EdgeChoices] : n \in 0..MaxEdges}

\* graphs without one of the lists or without both
G_NO_NODES == [downstreamEdges |-> <<[fromEntity |-> "n1", toEntity |-> "n5"]>>]
G_NO_EDGES == [nodes |-> Nodes]
G_NO_LISTS == [entity |-> "t1"]

LineageGraphs ==
    {[nodes |-> ns, downstreamEdges |-> es] : ns \in NodeLists, es \in EdgeLists}
    \cup {G_NO_NODES, G_NO_EDGES, G_NO_LISTS}

\* a row of the checks table (the columns the query reads)
TableRow(name, outcome, table_name, created_at) ==
    [name |-> name, outcome |-> outcome, table_name |-> table_name,
     created_at |-> created_at]
Times == {1, 2}
TableRows ==
    {TableRow(n, o, t, at) : n \in CheckNames, o \in Outcomes, t \in TableNames, at \in Times}
Tables == UNION {[1..n -> TableRows] : n \in 0..MaxRows}

\* (a slip: the rows of one name on the selected table only, as a partition by
\* table_name and name would rank them)
PartitionOnSelectedTable(table, name) ==
    {i \in 1..Len(table) : table[i].name = name /\ table[i].table_name \in SelectedTables}

\* PARTITION by name: the rows of one name
Partition(table, name) == {i \in 1..Len(table) : table[i].name = name}

\* (a slip: ORDER BY created_at ASC, the oldest row numbered 1)
RankedFirstAscending(table, name) ==
    {i \in Partition(table, name) :
        \A j \in Partition(table, name) : table[j].created_at >= table[i].created_at}

\* ORDER BY created_at DESC: the rows row_number() may number 1, the ones no
\* row of the partition is newer than (which of them gets 1 is not defined)
RankedFirst(table, name) ==
    {i \in Partition(table, name) :
        \A j \in Partition(table, name) : table[j].created_at <= table[i].created_at}

\* the orders a result without ORDER BY may come in
Orderings(S) ==
    {s \in [1..Cardinality(S) -> S] : \A i, j \in 1..Cardinality(S) : s[i] = s[j] => i = j}

\* the SELECT list: name AS check_name, outcome, table_name
Selected(r) == CheckRow(r.name, r.outcome, r.table_name)

\* the results the query of get_checks_df can return on a table: for each
\* name the row numbered 1, in any order
get_checks_df(table) ==
    LET names == {table[i].name : i \in 1..Len(table)}
        rn1 == {f \in [names -> 1..Len(table)] : \A n \in names : f[n] \in RankedFirst(table, n)}
    IN  UNION {{[k \in 1..Len(s) |-> Selected(table[s[k]])] :
                    s \in Orderings({f[n] : n \in names})} : f \in rn1}

\* a fetch on the graph and the table at hand: both requests are answered
FetchSource(selected_table) ==
    \E data \in get_checks_df(checks) :
        /\ FetchRun(selected_table, LineageJson(table_lineage),
                    [exc |-> FALSE, rows |-> data])
        /\ all_checks' = data
        /\ UNCHANGED <<table_lineage, checks>>

NextSource == \E selected_table \in SelectedTables : FetchSource(selected_table)

InitSession ==
    /\ rules = <<>>
    /\ checks_df = <<>>
    /\ downstream_workflows = <<>>
    /\ page = <<>>
    /\ calls = <<>>
    /\ raised = FALSE
    /\ pressed = Button("", 0)
    /\ all_checks = <<>>

\* a fetch on every lineage graph
InitLineage == InitSession /\ table_lineage \in LineageGraphs /\ checks = <<>>
SpecLineage == InitLineage /\ [][NextSource]_vars

\* a fetch on every checks table
InitChecks == InitSession /\ table_lineage = G_EMPTY /\ checks \in Tables
SpecChecks == InitChecks /\ [][NextSource]_vars

(***************************************************************************)
(* Vocabulary of the claims: the TriggerResult a trigger_rule call amounts *)
(* to, and the outcome snapshot                                            *)
(***************************************************************************)
HasMsg(c, kind) == \E i \in 1..Len(c.msgs) : c.msgs[i].kind = kind
Fired(c) == HasMsg(c, "TRIGGERED")
Posts(c) == {i \in 1..Len(c.reqs) : c.reqs[i].method = "POST"}
Deletes(c) == {i \in 1..Len(c.reqs) : c.reqs[i].method = "DELETE"}

AlertStatus(c) ==
    IF HasMsg(c, "Alert posted to Teams") THEN "Sent"
    ELSE IF HasMsg(c, "Error posting to Teams") THEN "Failed"
    ELSE "Skipped"

\* "Unreported": a delete request was issued and no status was written
TerminationStatus(c) ==
    IF HasMsg(c, "Successfully deleted workflow") THEN "Succeeded"
    ELSE IF HasMsg(c, "Failed to delete workflow") THEN "Failed"
    ELSE IF Deletes(c) = {} THEN "NotApplicable"
    ELSE "Unreported"

SnapshotHas(check_name) ==
    \E i \in 1..Len(checks_df) : checks_df[i].check_name = check_name
SnapshotOutcomeIs(check_name, outcome) ==
    \E i \in 1..Len(checks_df) :
        checks_df[i].check_name = check_name /\ checks_df[i].outcome = outcome

TriggeredAll == pressed.name = "Trigger All Rules"

(***************************************************************************)
(* Claims                                                                  *)
(***************************************************************************)

\* C1: a trigger_rule call reports the rule fired if and only if the snapshot
\* holds an outcome for the rule's check and that outcome equals the desired
\* one; when the outcome is there and differs, the call reports "NOT triggered"
\* with the current and the desired outcome.
C1_FiredIffOutcomeMatches ==
    \A i \in 1..Len(calls) :
        LET c == calls[i]
            check == c.rule.check_name
            desired == c.rule.desired_outcome
        IN  /\ Fired(c) <=> SnapshotOutcomeIs(check, desired)
            /\ (SnapshotHas(check) /\ ~SnapshotOutcomeIs(check, desired)) =>
                   \E k \in 1..Len(c.msgs), o \in Outcomes :
                       /\ SnapshotOutcomeIs(check, o)
                       /\ c.msgs[k].kind = "NOT triggered"
                       /\ c.msgs[k].args = <<o, desired>>

C1_Witness ==
    /\ \E i \in 1..Len(calls) : Fired(calls[i])
    /\ \E i \in 1..Len(calls) : HasMsg(calls[i], "NOT triggered")

\* C2: a Trigger All Rules run evaluates and reports every rule of the store,
\* whatever dispatch errors earlier rules hit; no dispatch error ends the run.
C2_DispatchErrorsIsolated ==
    TriggeredAll => (~raised /\ Len(calls) = Len(rules))

\* C3: for a fired "Alert + Pipeline Break" rule the delete request is issued
\* whether the alert was sent, skipped or failed, the alert status is the one
\* the webhook call alone decides, and both statuses are reported.
C3_AlertAndTerminationIndependent ==
    \A i \in 1..Len(calls) :
        LET c == calls[i]
        IN  (Fired(c) /\ c.rule.action_type = PIPELINE_BREAK) =>
                /\ Cardinality(Deletes(c)) = 1
                /\ AlertStatus(c) =
                       (IF c.rule.teams_webhook = "" THEN "Skipped"
                        ELSE IF \E k \in Posts(c) : PostRaises(c.reqs[k].resp)
                        THEN "Failed" ELSE "Sent")
                /\ TerminationStatus(c) \in {"Succeeded", "Failed", "NotFound"}

\* C4: the termination status of a fired "Alert + Pipeline Break" rule follows
\* the delete response: 2xx gives Succeeded, 404 gives a status of its own that
\* is not Failed, any other response or a transport error gives Failed with the
\* status in the message.
C4_TerminationStatusFromResponse ==
    \A i \in 1..Len(calls) :
        LET c == calls[i]
        IN  \A k \in Deletes(c) :
                LET resp == c.reqs[k].resp
                IN  IF ~resp.exc /\ resp.status_code \in 200..299
                    THEN TerminationStatus(c) = "Succeeded"
                    ELSE IF ~resp.exc /\ resp.status_code = 404
                    THEN TerminationStatus(c) \notin {"Failed", "Succeeded", "Unreported"}
                    ELSE /\ TerminationStatus(c) = "Failed"
                         /\ \E m \in 1..Len(c.msgs) :
                                /\ c.msgs[m].kind = "Failed to delete workflow"
                                /\ c.msgs[m].number = resp.status_code

\* C5: a rule that does not fire (outcome differs or check absent) issues no
\* POST and no DELETE; its alert status is Skipped, its termination status
\* NotApplicable.
C5_NotFiredNoRequests ==
    \A i \in 1..Len(calls) :
        LET c == calls[i]
        IN  ~SnapshotOutcomeIs(c.rule.check_name, c.rule.desired_outcome) =>
                /\ c.reqs = <<>>
                /\ AlertStatus(c) = "Skipped"
                /\ TerminationStatus(c) = "NotApplicable"

C5_Witness ==
    \E i \in 1..Len(calls) :
        /\ HasMsg(calls[i], "NOT triggered")
        /\ calls[i].rule.action_type = PIPELINE_BREAK
        /\ calls[i].rule.teams_webhook # ""

\* C6: a rule whose check has no row in the snapshot is reported not fired with
\* the "not found" message and raises nothing; in a Trigger All Rules run the
\* rule after it is evaluated.
C6_AbsentCheckReported ==
    \A i \in 1..Len(calls) :
        LET c == calls[i]
        IN  ~SnapshotHas(c.rule.check_name) =>
                /\ ~Fired(c)
                /\ HasMsg(c, "not found in checks_df")
                /\ ~c.raised
                /\ c.reqs = <<>>
                /\ (TriggeredAll /\ i < Len(rules)) => Len(calls) > i

C6_Witness ==
    /\ TriggeredAll
    /\ Len(calls) = 2
    /\ HasMsg(calls[1], "not found in checks_df")
    /\ Fired(calls[2])

\* C7: a fired "Alert Only" rule issues no delete request and its termination
\* status is NotApplicable, whatever workflows were fetched.
C7_AlertOnlyNeverDeletes ==
    \A i \in 1..Len(calls) :
        LET c == calls[i]
        IN  (Fired(c) /\ c.rule.action_type = ALERT_ONLY) =>
                /\ Deletes(c) = {}
                /\ TerminationStatus(c) = "NotApplicable"

C7_Witness ==
    /\ downstream_workflows # <<>>
    /\ \E i \in 1..Len(calls) :
           Fired(calls[i]) /\ calls[i].rule.action_type = ALERT_ONLY

\* C8: the rule list never holds an "Alert + Pipeline Break" rule with an empty
\* workflow name, and an add that is rejected for that reason leaves the list
\* as it was.
StoreValid(rs) ==
    \A i \in 1..Len(rs) :
        rs[i].action_type = PIPELINE_BREAK => rs[i].workflow_name # ""
SELECT_WORKFLOW == <<Msg("Please select a workflow to delete.", <<>>, 0)>>
C8_NoTerminateRuleWithoutWorkflow ==
    [][StoreValid(rules') /\ (page' = SELECT_WORKFLOW => rules' = rules)]_vars

C8_Witness ==
    /\ page = SELECT_WORKFLOW
    /\ \E i \in 1..Len(rules) : rules[i].action_type = PIPELINE_BREAK

\* C9: a Trigger All Rules run evaluates the rules in list order, each rule of
\* the list once, and reports the results in that order.
C9_AllRulesInOrder ==
    TriggeredAll =>
        /\ Len(calls) = Len(rules)
        /\ \A i \in 1..Len(calls) :
               calls[i].rule_index = i /\ calls[i].rule = rules[i]

C11_AlertSkippedSentOrFailed ==
    \A i \in 1..Len(calls) :
        LET c == calls[i]
        IN  Fired(c) =>
                IF c.rule.teams_webhook = ""
                THEN /\ Posts(c) = {}
                     /\ AlertStatus(c) = "Skipped"
                     /\ HasMsg(c, "No Teams webhook URL provided. Skipping alert.")
                ELSE /\ Cardinality(Posts(c)) = 1
                     /\ \A j \in Posts(c) :
                            /\ c.reqs[j].target = c.rule.teams_webhook
                            /\ AlertStatus(c) =
                                   IF c.reqs[j].resp.exc \/ c.reqs[j].resp.status_code >= 400
                                   THEN "Failed" ELSE "Sent"

\* two rules fired in one run: one without a webhook, one whose POST met a
\* transport error
C11_Witness ==
    \E i, k \in 1..Len(calls) :
        /\ Fired(calls[i]) /\ calls[i].rule.teams_webhook = ""
        /\ Fired(calls[k]) /\ calls[k].rule.teams_webhook # ""
        /\ \E j \in Posts(calls[k]) : calls[k].reqs[j].resp.exc
        /\ AlertStatus(calls[k]) = "Failed"

\* Lineage vocabulary of the claims.  A graph is well formed when it has both
\* lists, every node carries an id and a type, ids are unique and every edge
\* carries both endpoints.
WellFormed(g) ==
    /\ Has(g, "nodes") /\ Has(g, "downstreamEdges")
    /\ \A i \in 1..Len(g.nodes) : Has(g.nodes[i], "id") /\ Has(g.nodes[i], "type")
    /\ \A i, j \in 1..Len(g.nodes) : g.nodes[i].id = g.nodes[j].id => i = j
    /\ \A i \in 1..Len(g.downstreamEdges) :
            Has(g.downstreamEdges[i], "fromEntity") /\ Has(g.downstreamEdges[i], "toEntity")

Resolves(g, id) == \E i \in 1..Len(g.nodes) : g.nodes[i].id = id
NodeOf(g, id) == g.nodes[CHOOSE i \in 1..Len(g.nodes) : g.nodes[i].id = id]
QualifiedName(node) ==
    IF Has(node, "fullyQualifiedName") THEN node.fullyQualifiedName ELSE <<>>

\* the dot-separated segments of a qualified name: their number, and the text
\* of the segment at index k (from 0)
SegmentCount(fqn) == Cardinality({i \in 1..Len(fqn) : fqn[i] = DOT}) + 1
SegmentAt(fqn, k) ==
    LET at == {i \in 1..Len(fqn) :
                  /\ fqn[i] # DOT
                  /\ Cardinality({j \in 1..(i - 1) : fqn[j] = DOT}) = k}
    IN  IF at = {} THEN "" ELSE fqn[CHOOSE i \in at : TRUE]

\* the edges (by position) whose endpoints both resolve, from a job with at
\* least 3 segments to a table
JobToTable(g) ==
    {i \in 1..Len(g.downstreamEdges) :
        LET e == g.downstreamEdges[i]
        IN  /\ Resolves(g, e.fromEntity) /\ Resolves(g, e.toEntity)
            /\ NodeOf(g, e.fromEntity).type = "dataosJob"
            /\ SegmentCount(QualifiedName(NodeOf(g, e.fromEntity))) >= 3
            /\ NodeOf(g, e.toEntity).type = "table"}
WorkflowOf(g, i) == SegmentAt(QualifiedName(NodeOf(g, g.downstreamEdges[i].fromEntity)), 2)
DatasetOf(g, i) == QualifiedName(NodeOf(g, g.downstreamEdges[i].toEntity))
\* ... and whose workflow segment and table name are not empty
Named(g) == {i \in JobToTable(g) : WorkflowOf(g, i) # "" /\ DatasetOf(g, i) # <<>>}

\* the (workflow, dataset) pairs of the fetched rows
FetchedPairs ==
    {<<downstream_workflows[k].downstream_workflow_name,
       downstream_workflows[k].downstream_datasets>> : k \in 1..Len(downstream_workflows)}
Fetched == pressed.name = "Fetch"

\* C12 (as stated): after a fetch on a well-formed graph the rows hold the pair
\* (segment 2 of the job's name, the table's name) of an edge if and only if
\* both endpoints resolve, the source is a job with at least 3 segments and the
\* target is a table.
C12_PairIffJobToTable ==
    (Fetched /\ WellFormed(table_lineage)) =>
        FetchedPairs =
            {<<WorkflowOf(table_lineage, i), DatasetOf(table_lineage, i)>> :
                i \in JobToTable(table_lineage)}

\* C12 (amended): ... if and only if, in addition, segment 2 of the job's name
\* and the table's qualified name are not empty.
C12_PairIffNamedJobToTable ==
    (Fetched /\ WellFormed(table_lineage)) =>
        /\ page = <<>>
        /\ FetchedPairs =
              {<<WorkflowOf(table_lineage, i), DatasetOf(table_lineage, i)>> :
                  i \in Named(table_lineage)}

\* a fetch on a graph with an edge that yields a pair and an edge from a job
\* whose segment 2 is empty to a table
C12_Witness ==
    /\ Fetched /\ WellFormed(table_lineage)
    /\ Named(table_lineage) # {}
    /\ \E i \in JobToTable(table_lineage) \ Named(table_lineage) :
            WorkflowOf(table_lineage, i) = ""
    /\ FetchedPairs # {}

\* C13: parse never raises: a fetch whose two requests were answered never
\* ends in the fetch error, whatever the graph, and a graph whose node list or
\* edge list is missing or empty yields no rows.
C13_ParseNeverRaises ==
    Fetched =>
        /\ page # FETCH_ERROR
        /\ (Get(table_lineage, "nodes", <<>>) = <<>>
             \/ Get(table_lineage, "downstreamEdges", <<>>) = <<>>)
               => downstream_workflows = <<>>

\* Outcome vocabulary of the claims: the rows of a check name in the table and
\* in the query result, and the table rows a result row was selected from
TableRowsOf(name) == {i \in 1..Len(checks) : checks[i].name = name}
ResultRowsOf(name) == {k \in 1..Len(all_checks) : all_checks[k].check_name = name}
SelectedFrom(row, i) ==
    /\ checks[i].name = row.check_name
    /\ checks[i].outcome = row.outcome
    /\ checks[i].table_name = row.table_name
Newest(i) == \A j \in TableRowsOf(checks[i].name) : checks[j].created_at <= checks[i].created_at

\* C14: whatever rows the checks table holds, duplicates of a check name
\* included, the result of get_checks_df holds exactly one row for every check
\* name of the table (and none for other names), and that row is a row of the
\* check with the maximum created_at among the rows of that check.
C14_OneNewestRowPerCheck ==
    Fetched =>
        \A name \in CheckNames :
            IF TableRowsOf(name) = {} THEN ResultRowsOf(name) = {}
            ELSE /\ Cardinality(ResultRowsOf(name)) = 1
                 /\ \A k \in ResultRowsOf(name) :
                        \E i \in TableRowsOf(name) : SelectedFrom(all_checks[k], i) /\ Newest(i)

\* a fetch on a table with three rows of one check, the newest of them of
\* another outcome than the older two, arrived between them
C14_Witness ==
    /\ Fetched
    /\ Len(checks) = 3
    /\ \A i \in 1..3 : checks[i].name = checks[1].name
    /\ checks[1].created_at = 1 /\ checks[2].created_at = 2 /\ checks[3].created_at = 1
    /\ checks[1].outcome = checks[3].outcome /\ checks[2].outcome # checks[1].outcome
    /\ Len(all_checks) = 1 /\ all_checks[1].outcome = checks[2].outcome

\* C15: when "Trigger Selected Rule" is pressed for the rule it was pressed
\* for in the run before (the rule list and the snapshot are the same), the
\* call reports the same fire decision and issues the same requests, and when
\* the requests are answered as before the whole result is the same.
SameRequest(a, b) == a.method = b.method /\ a.target = b.target /\ a.body = b.body
C16_FailedFetchKeepsSnapshots ==
    [][(pressed'.name = "Fetch" /\ page' = FETCH_ERROR) =>
          UNCHANGED <<checks_df, downstream_workflows>>]_vars

\* C17: every termination request a trigger run issues names a workflow that
\* the current downstream workflows list, also after a re-fetch that no longer
\* lists the workflow of a rule added before it.
C17_DeleteOnlyListedWorkflow ==
    \A i \in 1..Len(calls) :
        \A j \in Deletes(calls[i]) :
            \E k \in 1..Len(downstream_workflows) :
                downstream_workflows[k].downstream_workflow_name = calls[i].reqs[j].target

\* the fetched rows that hold a given (workflow, dataset) pair, and the edges of
\* the graph that derive it
RowsWith(pair) ==
    {k \in 1..Len(downstream_workflows) :
        /\ downstream_workflows[k].downstream_workflow_name = pair[1]
        /\ downstream_workflows[k].downstream_datasets = pair[2]}
EdgesDeriving(g, pair) ==
    {i \in Named(g) : WorkflowOf(g, i) = pair[1] /\ DatasetOf(g, i) = pair[2]}

C19_LastArrivedWinsTie ==
    Fetched =>
        \A name \in CheckNames :
            \A k \in ResultRowsOf(name) :
                \E i \in TableRowsOf(name) :
                    /\ SelectedFrom(all_checks[k], i)
                    /\ Newest(i)
                    /\ \A j \in TableRowsOf(name) : Newest(j) => j <= i

\* C20: a run of "Trigger Selected Rule" or "Trigger All Rules" leaves the rule
\* list, the check outcomes and the downstream workflows as they were, and the
\* only requests it issues are the alert POSTs and the workflow DELETEs of the
\* rules it evaluated (no request of a fetch).
C20_EvaluationLeavesSession ==
    [][pressed'.name \in {"Trigger Selected Rule", "Trigger All Rules"} =>
          /\ UNCHANGED <<rules, checks_df, downstream_workflows>>
          /\ \A i \in 1..Len(calls') :
                /\ calls'[i].rule = rules[calls'[i].rule_index]
                /\ \A j \in 1..Len(calls'[i].reqs) :
                      \/ /\ calls'[i].reqs[j].method = "POST"
                         /\ calls'[i].reqs[j].target = calls'[i].rule.teams_webhook
                      \/ /\ calls'[i].reqs[j].method = "DELETE"
                         /\ calls'[i].reqs[j].target = calls'[i].rule.workflow_name]_vars

\* "Trigger All Rules" evaluated two rules, one of which posted an alert and
\* deleted its workflow; the rules and both snapshots are still there
C20_Witness ==
    /\ TriggeredAll /\ Len(calls) = 2 /\ Len(rules) = 2
    /\ \E i \in 1..2 : Posts(calls[i]) # {} /\ Deletes(calls[i]) # {}
    /\ checks_df # <<>> /\ downstream_workflows # <<>>

\* the workflows the downstream workflows list
ListsWorkflow(workflow_name) ==
    \E k \in 1..Len(downstream_workflows) :
        downstream_workflows[k].downstream_workflow_name = workflow_name

\* C21: a run of the fetch button, whether it ends in the fetch error or not,
\* leaves the rule list exactly as it was (same rules, same order), also when
\* the outcomes it stored no longer hold a rule's check or the workflows it
\* stored no longer list a rule's workflow.
C21_FetchLeavesRules ==
    [][pressed'.name = "Fetch" => rules' = rules]_vars

\* after a successful fetch the rule list still holds a rule whose check the
\* new outcomes do not hold and whose workflow the new workflows do not list
C21_Witness ==
    /\ Fetched /\ page = <<>>
    /\ \E i \in 1..Len(rules) :
          /\ ~SnapshotHas(rules[i].check_name)
          /\ rules[i].workflow_name # ""
          /\ ~ListsWorkflow(rules[i].workflow_name)

\* the rows of the snapshot st.session_state.checks_df for a check name
SnapshotRowsOf(name) == {k \in 1..Len(checks_df) : checks_df[k].check_name = name}

\* C22: after a fetch every row of the snapshot that rules are evaluated on
\* belongs to the selected table and was selected from a row of its check name
\* that no row of that name, on any table, is newer than; a check name has at
\* most one row, and none when all its newest rows belong to another table,
\* older rows on the selected table or not.
C22_SnapshotNewestAcrossTables ==
    Fetched =>
        \E selected_table \in SelectedTables :
            /\ \A k \in 1..Len(checks_df) :
                  /\ checks_df[k].table_name = selected_table
                  /\ \E i \in TableRowsOf(checks_df[k].check_name) :
                        SelectedFrom(checks_df[k], i) /\ Newest(i)
            /\ \A name \in CheckNames :
                  /\ Cardinality(SnapshotRowsOf(name)) <= 1
                  /\ (\A i \in TableRowsOf(name) :
                         Newest(i) => checks[i].table_name # selected_table)
                       => SnapshotRowsOf(name) = {}

\* a fetch on a table where one check has an older row on the selected table
\* and a newer one on another table, and a second check has its newest row on
\* the selected table: the snapshot holds the second check only
C22_Witness ==
    /\ Fetched
    /\ \E name \in CheckNames, selected_table \in SelectedTables :
          /\ \E i, j \in TableRowsOf(name) :
                /\ checks[i].table_name = selected_table
                /\ checks[j].table_name # selected_table
                /\ checks[i].created_at < checks[j].created_at
          /\ SnapshotRowsOf(name) = {}
          /\ Len(checks_df) = 1
          /\ checks_df[1].table_name = selected_table

====
